---- MODULE Spec2Model ----
(***************************************************************************)
(* A model of dev/publish_bom.py: the release publication flow of          *)
(* BomPublisher.main (load the release-candidate BOM, publish the          *)
(* changelog gist, push the stable branch and the version tags of every    *)
(* component, publish the release BOM and register the release).           *)
(*                                                                         *)
(* Strings are sequences of tokens: a token is one of the delimiter        *)
(* characters "-" and ".", or a maximal run of other characters.  Every    *)
(* concatenation the program performs has a delimiter at the seam, so \o   *)
(* is string concatenation on this representation.                         *)
(*                                                                         *)
(* One action is one command (one check_run_quick, one API call, or the    *)
(* statements between two of them).  A command fails either because of    *)
(* the state it finds (git refuses) or because of an external fault (the   *)
(* network, the disk); faults are counted and bounded by MaxFaults.        *)
(***************************************************************************)
EXTENDS Integers, Sequences, FiniteSets, TLC

\* ---------------------------------------------------------------- bounds
\* Number of invocations of main in one behaviour.
MaxRuns == 2
\* Number of external faults (a command failing for a reason that is not
\* in the modelled state) in one behaviour.
MaxFaults == 1

\* ------------------------------------------------------- module constants
SERVICES == "services"
VERSION == "version"

COMPONENTS ==
  << "clouddriver", "deck", "echo", "front50", "gate", "igor", "orca",
     "rosco", "fiat", "spinnaker-monitoring", "spinnaker" >>

ComponentSet == {COMPONENTS[k] : k \in DOMAIN COMPONENTS}

\* ------------------------------------------------------- string helpers
\* str.split(sep): the list of the pieces between the separators.
RECURSIVE split(_, _)
split(s, sep) ==
  IF \A k \in DOMAIN s : s[k] # sep
    THEN << s >>
    ELSE LET k == CHOOSE k \in DOMAIN s :
                    s[k] = sep /\ \A m \in 1..(k - 1) : s[m] # sep
         IN  << SubSeq(s, 1, k - 1) >> \o split(SubSeq(s, k + 1, Len(s)), sep)

\* sep.join(parts)
RECURSIVE join(_, _)
join(sep, parts) ==
  IF Len(parts) = 0 THEN << >>
  ELSE IF Len(parts) = 1 THEN parts[1]
  ELSE parts[1] \o << sep >> \o join(sep, Tail(parts))

\* str.rindex(ch): the highest index of ch; 0 stands for the ValueError
\* Python raises when ch does not occur.
rindex(s, ch) ==
  IF \E k \in DOMAIN s : s[k] = ch
    THEN CHOOSE k \in DOMAIN s : s[k] = ch /\ \A m \in (k + 1)..Len(s) : s[m] # ch
    ELSE 0

\* A faulty variant of format_stable_branch: the branch of the major version.
format_stable_branch_major(major, minor) ==
  << "release", "-" >> \o join(".", << major, << "x" >> >>)

format_stable_branch(major, minor) ==
  << "release", "-" >> \o join(".", << major, minor, << "x" >> >>)

\* A faulty variant of version_tag_build_of: the recorded string as it is.
version_tag_build_of_bare(recorded) == recorded

\* 'version-{0}'.format(recorded)
version_tag_build_of(recorded) == << "version", "-" >> \o recorded

\* A faulty variant of version_tag_of: cut at the first hyphen after the prefix.
version_tag_of_first_dash(vtb) ==
  LET rest == SubSeq(vtb, 3, Len(vtb))
      d == IF \E k \in DOMAIN rest : rest[k] = "-"
             THEN CHOOSE k \in DOMAIN rest :
                    rest[k] = "-" /\ \A m \in 1..(k - 1) : rest[m] # "-"
             ELSE 0
  IN  IF d = 0 THEN SubSeq(vtb, 1, 1) ELSE SubSeq(vtb, 1, d + 1)

\* version_tag_build[:version_tag_build.rindex('-')]
version_tag_of(vtb) == SubSeq(vtb, 1, rindex(vtb, "-") - 1)

\* A faulty variant of services_key: every component reads its own name.
services_key_own(comp) == comp

\* The services key the version of a component is read from.
services_key(comp) ==
  IF comp = "spinnaker-monitoring" THEN "monitoring-daemon" ELSE comp

\* A faulty variant of needs_tag_push: push whatever the remote reports.
needs_tag_push_always(tag, names) == TRUE

\* version_tag not in tag_names
needs_tag_push(tag, names) == tag \notin names

\* '{0}.yml'.format(name)
yml(name) == name \o << ".", "yml" >>

\* ------------------------------------------------------------- inputs
semver(a, b, c) == << a, ".", b, ".", c >>

\* Components whose recorded version is the one already tagged on the remote.
Unchanged == {"clouddriver", "echo", "igor", "rosco", "spinnaker"}

\* The version string the release candidate records for a services key.
recorded(key) ==
  IF key \in Unchanged THEN semver("1", "0", "0") \o << "-", "abc" >>
  ELSE IF key = "fiat" THEN semver("1", "1", "0") \o << "-", "rc", "-", "abc" >>
  ELSE semver("1", "1", "0") \o << "-", "abc" >>

FullKeys == (ComponentSet \ {"spinnaker-monitoring"}) \cup {"monitoring-daemon"}

\* The recorded string of a key in a release candidate of the given kind:
\*   "prefixed"  the strings already carry a 'version-' prefix
\*   "nohyphen"  the first component's string has no hyphen
\*   "own"       the monitoring component's own name has an entry as well
recorded_in(kind, key) ==
  IF kind = "prefixed" THEN << "version", "-" >> \o recorded(key)
  ELSE IF kind = "nohyphen" /\ key = "clouddriver" THEN semver("1", "1", "0")
  ELSE IF kind = "own" /\ key = "spinnaker-monitoring"
    THEN semver("9", "9", "9") \o << "-", "abc" >>
  ELSE recorded(key)

Bom(keys, kind) ==
  [loaded |-> TRUE,
   version |-> << "rc", "-", "9" >>,
   services |-> [k \in keys |-> [version |-> recorded_in(kind, k)]]]

\* every component has an entry, the aggregate 'spinnaker' included
BomFull == Bom(FullKeys, "plain")
\* the aggregate name has no entry
BomNoAggregate == Bom(FullKeys \ {"spinnaker"}, "plain")
BomPrefixed == Bom(FullKeys, "prefixed")
BomNoHyphen == Bom(FullKeys, "nohyphen")
BomBothMonitoring == Bom(FullKeys \cup {"spinnaker-monitoring"}, "own")

Boms == {BomFull, BomNoAggregate, BomPrefixed, BomNoHyphen, BomBothMonitoring}

\* self.__bom_dict = {}
EmptyBom ==
  [loaded |-> FALSE, version |-> << >>,
   services |-> [k \in {} |-> [version |-> << >>]]]

ReleaseVersions == {semver("1", "0", "1"), semver("1", "0", "2"), semver("1", "1", "0")}
Aliases == {<< >>, << "latest" >>}

DefaultOptions ==
  [rc_version |-> << "rc", "-", "9" >>,
   release_version |-> semver("1", "0", "1"),
   release_name |-> << "R1" >>,
   bom_alias |-> << >>,
   changelog_file |-> << "changelog", ".", "md" >>,
   github_publisher |-> << "acme" >>,
   gist_user |-> << "gisty" >>,
   patch_release |-> FALSE,
   changelog_gist_only |-> FALSE]

\* The command lines of a behaviour: the default one, and those that differ
\* from it in one option.
OptionChoices ==
  {DefaultOptions}
  \cup {[DefaultOptions EXCEPT !.release_version = v] : v \in ReleaseVersions}
  \cup {[DefaultOptions EXCEPT !.bom_alias = a] : a \in Aliases}
  \cup {[DefaultOptions EXCEPT !.changelog_gist_only = g] : g \in BOOLEAN}

\* The release candidate and the command line of a behaviour: one of the two
\* is the default.
Inputs ==
  {<< o, BomFull >> : o \in OptionChoices} \cup {<< DefaultOptions, b >> : b \in Boms}

\* The lines of the local changelog file, as readlines() returns them: each
\* with its line end.
ChangelogLines == << << "Fixed bug X", "\n" >>, << "Added Y", "\n" >> >>

\* datetime.datetime.utcnow(), formatted
Timestamp == << "utcnow" >>

\* --------------------------------------------------------------- state
VARIABLES
  options,        \* the parsed command line of the current run
  pc,             \* the statement the current run is at
  comp_idx,       \* push_branch_and_tags: index of comp in COMPONENTS
  bom_dict,       \* self.__bom_dict
  gist_uri,       \* self.__gist_uri
  stable_branch,  \* push_branch_and_tags: stable_branch
  version_tag_build, \* push_branch_and_tags: version_tag_build
  version_tag,    \* push_branch_and_tags: version_tag
  tag_names,      \* push_branch_and_tags: tag_names
  localBranches,  \* working copy -> its local branches
  localRemotes,   \* working copy -> its configured remotes
  remoteBranches, \* remote repository -> its branches
  remoteTags,     \* remote repository -> its tags
  bomFiles,       \* BOM files written locally
  bomStore,       \* BOMs in the distribution store
  registry,       \* releases registered with 'hal admin publish version'
  latest,         \* the 'latest' pointer
  gists,          \* the gists created so far
  environ,        \* os.environ['GIST_URI']
  log,            \* the commands of the current run, in order
  runs,           \* invocations of main so far
  faults,         \* external faults so far
  faulted,        \* the command of the current run an external fault hit, or ""
  hist,           \* what the previous runs left behind
  tagPushes       \* the tags the remotes have received, in order

procVars == << options, pc, comp_idx, bom_dict, gist_uri, stable_branch,
               version_tag_build, version_tag, tag_names >>
gitVars == << localBranches, localRemotes, remoteBranches, remoteTags >>
halVars == << bomFiles, bomStore, registry, latest >>
gistVars == << gists, environ >>
vars == << procVars, gitVars, halVars, gistVars, log, runs, faults, faulted, hist,
          tagPushes >>

Master == << "master" >>
OldStable == format_stable_branch(<< "1" >>, << "0" >>)
OldTag == << "version", "-" >> \o semver("1", "0", "0")

\* The state in which a process with the given command line is at `at`,
\* with the given release candidate in the store.
StartState(opts, candidate, at, vtb) ==
  /\ options = opts
  /\ bomStore = {[name |-> opts.rc_version, bom |-> candidate]}
  /\ pc = at
  /\ version_tag_build = vtb
  /\ comp_idx = 1
  /\ bom_dict = EmptyBom
  /\ gist_uri = << >>
  /\ stable_branch = << >>
  /\ version_tag = << >>
  /\ tag_names = {}
  /\ localBranches = [c \in ComponentSet |-> {Master, OldStable}]
  /\ localRemotes =
       [c \in ComponentSet |-> {[name |-> "origin", owner |-> << "spinnaker" >>, repo |-> c]}]
  /\ remoteBranches = [c \in ComponentSet |-> {Master, OldStable}]
  /\ remoteTags = [c \in ComponentSet |-> {OldTag}]
  /\ bomFiles = {}
  /\ registry = {}
  /\ latest = << >>
  /\ gists = << >>
  /\ environ = << >>
  /\ log = << >>
  /\ runs = 0
  /\ faults = 0
  /\ faulted = ""
  /\ tagPushes = << >>
  /\ hist = [ok |-> FALSE, created |-> FALSE, aborted |-> "",
             faulted |-> "", patch |-> FALSE,
             tags |-> [c \in ComponentSet |-> {OldTag}],
             remotes |-> [c \in ComponentSet |->
                            {[name |-> "origin", owner |-> << "spinnaker" >>, repo |-> c]}],
             branches |-> [c \in ComponentSet |-> {Master, OldStable}]]

Init == \E in \in Inputs : StartState(in[1], in[2], "idle", << >>)

\* ------------------------------------------------------------- helpers
comp == COMPONENTS[comp_idx]

Entry(op, c, ok, arg, listed) ==
  [op |-> op, comp |-> c, ok |-> ok, arg |-> arg, listed |-> listed]

\* The outcomes an external fault adds to a command the state permits.
FaultChoices(permitted) ==
  IF permitted /\ faults < MaxFaults THEN BOOLEAN ELSE {FALSE}

Count(fault, op) ==
  /\ faults' = IF fault THEN faults + 1 ELSE faults
  /\ faulted' = IF fault THEN op ELSE faulted

\* A faulty variant of main_next: the changelog is published last.
main_next_changelog_last(step) ==
  CASE step = "start" -> "unpack_bom"
    [] step = "unpack_bom" -> "push_branch_and_tags"
    [] step = "push_branch_and_tags" -> "publish_release_bom"
    [] step = "publish_release_bom" -> "publish_changelog_gist"
    [] step = "publish_changelog_gist" -> "done"

\* A faulty variant of main_next: the BOM is published before the branches are pushed.
main_next_bom_first(step) ==
  CASE step = "start" -> "unpack_bom"
    [] step = "unpack_bom" -> "publish_changelog_gist"
    [] step = "publish_changelog_gist" -> "publish_release_bom"
    [] step = "publish_release_bom" -> "push_branch_and_tags"
    [] step = "push_branch_and_tags" -> "done"

\* main: the method called after each method returns.
main_next(step) ==
  CASE step = "start" -> "unpack_bom"
    [] step = "unpack_bom" -> "publish_changelog_gist"
    [] step = "publish_changelog_gist" -> "push_branch_and_tags"
    [] step = "push_branch_and_tags" -> "publish_release_bom"
    [] step = "publish_release_bom" -> "done"

\* A faulty variant of raise_to: the error is swallowed and the run goes on.
raise_to_swallowed(next) == next

\* check_run_quick raises, nothing catches: the run ends where it failed.
raise_to(next) == "failed"

after(ok, next) == IF ok THEN next ELSE raise_to(next)

\* spinnaker.run.check_run_quick: returns when the command exits with 0 and
\* raises otherwise.
check_run_quick(exit_ok) == exit_ok

\* A faulty variant of checkout_permitted: 'checkout -B' resets an existing branch.
checkout_permitted_reset(patch, branches, branch) ==
  patch => branch \in branches

\* git checkout <branch> needs the branch, git checkout -b <branch> refuses it.
checkout_permitted(patch, branches, branch) ==
  IF patch THEN branch \in branches ELSE branch \notin branches

\* A faulty variant of remove_release: the remote stays configured.
remove_release_skipped(remotes) == remotes

\* git remote remove release
remove_release(remotes) == {r \in remotes : r.name # "release"}

has_release(c) == \E r \in localRemotes[c] : r.name = "release"
release_repo(c) == (CHOOSE r \in localRemotes[c] : r.name = "release").repo

\* A faulty variant of stamp: the release candidate's version field is kept.
stamp_kept(bom, release_version) == bom

\* self.__bom_dict[VERSION] = self.__release_version
stamp(bom, release_version) == [bom EXCEPT !.version = release_version]

\* A faulty variant of alias_set: the alias manifest is written in any case.
alias_set_always(alias) == TRUE

\* if self.__alias: the empty string is the unset alias
alias_set(alias) == alias # << >>

\* BomGenerator.write_bom_file: the file holds the BOM, whatever it held.
write_bom_file(files, name, bom) ==
  {f \in files : f.name # name} \cup {[name |-> name, bom |-> bom]}

\* BomGenerator.publish_bom: the store holds the file's content under its name.
publish_bom(store, files, name) ==
  {f \in store : f.name # name} \cup {f \in files : f.name = name}

\* hal version bom <rc_version>
hal_version_bom(store, name) ==
  IF \E f \in store : f.name = name
    THEN (CHOOSE f \in store : f.name = name).bom
    ELSE EmptyBom

\* ------------------------------------------------------------- actions
\* main, lines 191-195: a new process parses its command line.
start_run ==
  /\ pc \in {"idle", "done", "failed"}
  /\ runs < MaxRuns
  /\ \E patch \in BOOLEAN : options' = [options EXCEPT !.patch_release = patch]
  /\ pc' = main_next("start")
  /\ comp_idx' = 1
  /\ bom_dict' = EmptyBom
  /\ gist_uri' = << >>
  /\ stable_branch' = << >>
  /\ version_tag_build' = << >>
  /\ version_tag' = << >>
  /\ tag_names' = {}
  /\ environ' = << >>
  /\ log' = << >>
  /\ runs' = runs + 1
  /\ faulted' = ""
  /\ hist' = [ok |-> (pc = "done"),
              created |-> (hist.created \/
                  \E j \in DOMAIN log : /\ log[j].op = "checkout_b"
                                        /\ log[j].comp = COMPONENTS[1]
                                        /\ log[j].ok),
              aborted |-> IF pc = "failed" THEN log[Len(log)].op ELSE "",
              faulted |-> faulted,
              patch |-> options.patch_release,
              tags |-> remoteTags,
              remotes |-> localRemotes,
              branches |-> remoteBranches]
  /\ UNCHANGED << gitVars, halVars, gists, faults, tagPushes >>

\* unpack_bom: run_quick does not raise; a failed hal leaves no BOM.
unpack_bom ==
  /\ pc = "unpack_bom"
  /\ \E fault \in FaultChoices(TRUE) :
       /\ bom_dict' = IF fault THEN EmptyBom
                      ELSE hal_version_bom(bomStore, options.rc_version)
       /\ log' = Append(log, Entry("unpack_bom", "", ~fault, options.rc_version, FALSE))
       /\ Count(fault, "unpack_bom")
  /\ pc' = main_next("unpack_bom")
  /\ UNCHANGED << options, comp_idx, gist_uri, stable_branch, version_tag_build, version_tag, tag_names,
                  gitVars, halVars, gistVars, runs, hist, tagPushes >>

\* ''.join(parts)
RECURSIVE concat(_)
concat(parts) ==
  IF Len(parts) = 0 THEN << >> ELSE parts[1] \o concat(Tail(parts))

\* A faulty variant of signature: signed by nobody.
signature_anonymous(publisher, timestamp) ==
  << "\n", "\n", "Generated at " >> \o timestamp

\* '\n\nGenerated by {0} at {1}'.format(publisher, timestamp)
signature(publisher, timestamp) ==
  << "\n", "\n", "Generated by " >> \o publisher \o << " at " >> \o timestamp

\* lines 118-126: the title line, the lines of the file, the signature
gist_content ==
  LET spinnaker_version == << "# Spinnaker " >> \o options.release_version \o << "\n" >>
      raw_content_lines ==
        Append(<< spinnaker_version >> \o ChangelogLines,
               signature(options.github_publisher, Timestamp))
  IN  concat(raw_content_lines)

gist_url(id) ==
  << "https://gist", ".", "github", ".", "com/" >> \o options.gist_user \o << "/", id >>

publish_changelog_gist ==
  /\ pc = "publish_changelog_gist"
  /\ \E fault \in FaultChoices(TRUE) :
       LET id == ToString(Len(gists) + 1)
           uri == gist_url(id)
       IN  /\ gists' = IF fault THEN gists
                       ELSE Append(gists,
                              [id |-> id,
                               user |-> options.gist_user,
                               description |->
                                 << "Changelog for Spinnaker " >> \o options.release_version,
                               filename |-> options.changelog_file,
                               content |-> gist_content])
           /\ gist_uri' = IF fault THEN gist_uri ELSE uri
           /\ environ' = IF fault THEN environ ELSE uri
           /\ log' = Append(log, Entry("publish_changelog_gist", "", ~fault,
                                       IF fault THEN << >> ELSE uri, FALSE))
           /\ pc' = after(~fault, main_next("publish_changelog_gist"))
           /\ Count(fault, "publish_changelog_gist")
  /\ UNCHANGED << options, comp_idx, bom_dict, stable_branch, version_tag_build, version_tag, tag_names,
                  gitVars, halVars, runs, hist, tagPushes >>

\* push_branch_and_tags, lines 147-153
push_branch_and_tags ==
  /\ pc = "push_branch_and_tags"
  /\ LET parts == split(options.release_version, ".")
         ok == Len(parts) = 3
     IN  /\ stable_branch' = IF ok THEN format_stable_branch(parts[1], parts[2])
                             ELSE stable_branch
         /\ pc' = after(ok, "checkout")
         /\ log' = IF ok THEN log
                   ELSE Append(log, Entry("split", "", FALSE, options.release_version, FALSE))
  /\ comp_idx' = 1
  /\ UNCHANGED << options, bom_dict, gist_uri, version_tag_build, version_tag, tag_names,
                  gitVars, halVars, gistVars, runs, faults, faulted, hist, tagPushes >>

\* lines 154-159: git checkout [-b] <stable_branch> in the working copy
checkout ==
  /\ pc = "checkout"
  /\ \E fault \in FaultChoices(checkout_permitted(options.patch_release,
                                                  localBranches[comp], stable_branch)) :
       LET ok == check_run_quick(
                   ~fault /\ checkout_permitted(options.patch_release,
                                                localBranches[comp], stable_branch))
       IN  /\ localBranches' =
                IF ok THEN [localBranches EXCEPT ![comp] = @ \cup {stable_branch}]
                ELSE localBranches
           /\ log' = Append(log,
                Entry(IF options.patch_release THEN "checkout" ELSE "checkout_b",
                      comp, ok, stable_branch, FALSE))
           /\ pc' = after(ok, "derive_tag")
           /\ Count(fault, "checkout")
  /\ UNCHANGED << options, comp_idx, bom_dict, gist_uri, stable_branch, version_tag_build, version_tag,
                  tag_names, localRemotes, remoteBranches, remoteTags,
                  halVars, gistVars, runs, hist, tagPushes >>

\* lines 161-168: the version tag of the component
derive_tag ==
  /\ pc = "derive_tag"
  /\ LET key == services_key(comp)
         found == bom_dict.loaded /\ key \in DOMAIN bom_dict.services
         vtb == IF found THEN version_tag_build_of(bom_dict.services[key].version)
                ELSE << >>
         ok == found /\ rindex(vtb, "-") # 0
         tag == IF ok THEN version_tag_of(vtb) ELSE version_tag
     IN  /\ version_tag_build' = vtb
         /\ version_tag' = tag
         /\ log' = Append(log, Entry("derive_tag", comp, ok, tag, FALSE))
         /\ pc' = after(ok, "remote_add")
  /\ UNCHANGED << options, comp_idx, bom_dict, gist_uri, stable_branch, tag_names,
                  gitVars, halVars, gistVars, runs, faults, faulted, hist, tagPushes >>

\* lines 169-172: git remote add release git@github.com:<owner>/<comp>.git
remote_add ==
  /\ pc = "remote_add"
  /\ \E fault \in FaultChoices(~has_release(comp)) :
       LET ok == check_run_quick(~fault /\ ~has_release(comp))
       IN  /\ localRemotes' =
                IF ok THEN [localRemotes EXCEPT ![comp] = @ \cup
                              {[name |-> "release", owner |-> options.github_publisher,
                                repo |-> comp]}]
                ELSE localRemotes
           /\ log' = Append(log, Entry("remote_add", comp, ok, << >>, FALSE))
           /\ pc' = after(ok, "push_branch")
           /\ Count(fault, "remote_add")
  /\ UNCHANGED << options, comp_idx, bom_dict, gist_uri, stable_branch, version_tag_build, version_tag,
                  tag_names, localBranches, remoteBranches, remoteTags,
                  halVars, gistVars, runs, hist, tagPushes >>

\* lines 173-174: git push release <stable_branch>
push_branch ==
  /\ pc = "push_branch"
  /\ \E fault \in FaultChoices(has_release(comp)) :
       LET ok == check_run_quick(~fault /\ has_release(comp))
       IN  /\ remoteBranches' =
                IF ok THEN [remoteBranches EXCEPT ![release_repo(comp)] =
                              @ \cup {stable_branch}]
                ELSE remoteBranches
           /\ log' = Append(log, Entry("push_branch", comp, ok, stable_branch, FALSE))
           /\ pc' = after(ok, "get_tags")
           /\ Count(fault, "push_branch")
  /\ UNCHANGED << options, comp_idx, bom_dict, gist_uri, stable_branch, version_tag_build, version_tag,
                  tag_names, localBranches, localRemotes, remoteTags,
                  halVars, gistVars, runs, hist, tagPushes >>

\* lines 176-179: the tag names of <owner>/<comp>, and the test on them
get_tags ==
  /\ pc = "get_tags"
  /\ \E fault \in FaultChoices(TRUE) :
       LET names == IF fault THEN tag_names ELSE remoteTags[comp]
       IN  /\ tag_names' = names
           /\ log' = Append(log, Entry("get_tags", comp, ~fault, version_tag,
                                       version_tag \in remoteTags[comp]))
           /\ pc' = after(~fault, IF needs_tag_push(version_tag, names)
                                    THEN "push_tag" ELSE "remote_remove")
           /\ Count(fault, "get_tags")
  /\ UNCHANGED << options, comp_idx, bom_dict, gist_uri, stable_branch, version_tag_build, version_tag,
                  gitVars, halVars, gistVars, runs, hist, tagPushes >>

\* lines 180-184: git push release <version_tag>
push_tag ==
  /\ pc = "push_tag"
  /\ \E fault \in FaultChoices(has_release(comp)) :
       LET ok == check_run_quick(~fault /\ has_release(comp))
       IN  /\ remoteTags' =
                IF ok THEN [remoteTags EXCEPT ![release_repo(comp)] = @ \cup {version_tag}]
                ELSE remoteTags
           /\ tagPushes' =
                IF ok THEN Append(tagPushes, << release_repo(comp), version_tag >>)
                ELSE tagPushes
           /\ log' = Append(log, Entry("push_tag", comp, ok, version_tag,
                                       version_tag \in remoteTags[comp]))
           /\ pc' = after(ok, "remote_remove")
           /\ Count(fault, "push_tag")
  /\ UNCHANGED << options, comp_idx, bom_dict, gist_uri, stable_branch, version_tag_build, version_tag,
                  tag_names, localBranches, localRemotes, remoteBranches,
                  halVars, gistVars, runs, hist >>

\* lines 185-187, and the loop's next round or the return to main
remote_remove ==
  /\ pc = "remote_remove"
  /\ \E fault \in FaultChoices(has_release(comp)) :
       LET ok == check_run_quick(~fault /\ has_release(comp))
           last == comp_idx = Len(COMPONENTS)
           next == after(ok, IF last THEN main_next("push_branch_and_tags")
                             ELSE "checkout")
       IN  /\ localRemotes' =
                IF ok THEN [localRemotes EXCEPT ![comp] = remove_release(@)]
                ELSE localRemotes
           /\ log' = Append(log, Entry("remote_remove", comp, ok, << >>, FALSE))
           /\ pc' = next
           /\ comp_idx' = IF next = "checkout" THEN comp_idx + 1 ELSE comp_idx
           /\ Count(fault, "remote_remove")
  /\ UNCHANGED << options, bom_dict, gist_uri, stable_branch, version_tag_build, version_tag,
                  tag_names, localBranches, remoteBranches, remoteTags,
                  halVars, gistVars, runs, hist, tagPushes >>

\* publish_release_bom, lines 97-99
write_release_bom ==
  /\ pc = "publish_release_bom"
  /\ \E fault \in FaultChoices(TRUE) :
       LET name == yml(options.release_version)
           bom == stamp(bom_dict, options.release_version)
       IN  /\ bom_dict' = bom
           /\ bomFiles' = IF fault THEN bomFiles ELSE write_bom_file(bomFiles, name, bom)
           /\ log' = Append(log, Entry("write_bom_file", "", ~fault, name, FALSE))
           /\ pc' = after(~fault, "publish_bom")
           /\ Count(fault, "write_bom_file")
  /\ UNCHANGED << options, comp_idx, gist_uri, stable_branch, version_tag_build, version_tag, tag_names,
                  gitVars, bomStore, registry, latest, gistVars, runs, hist, tagPushes >>

\* publish_release_bom, lines 100-102
publish_release_bom ==
  /\ pc = "publish_bom"
  /\ \E fault \in FaultChoices(TRUE) :
       LET name == yml(options.release_version)
       IN  /\ bomStore' = IF fault THEN bomStore ELSE publish_bom(bomStore, bomFiles, name)
           /\ log' = Append(log, Entry("publish_bom", "", ~fault, name, FALSE))
           /\ pc' = after(~fault, IF alias_set(options.bom_alias)
                                    THEN "write_alias" ELSE "publish_version")
           /\ Count(fault, "publish_bom")
  /\ UNCHANGED << options, comp_idx, bom_dict, gist_uri, stable_branch, version_tag_build, version_tag,
                  tag_names, gitVars, bomFiles, registry, latest, gistVars, runs, hist, tagPushes >>

\* publish_release_bom, lines 103-104
write_alias_bom ==
  /\ pc = "write_alias"
  /\ \E fault \in FaultChoices(TRUE) :
       LET name == yml(options.bom_alias)
       IN  /\ bomFiles' = IF fault THEN bomFiles
                          ELSE write_bom_file(bomFiles, name, bom_dict)
           /\ log' = Append(log, Entry("write_bom_file", "", ~fault, name, FALSE))
           /\ pc' = after(~fault, "publish_alias")
           /\ Count(fault, "write_bom_file")
  /\ UNCHANGED << options, comp_idx, bom_dict, gist_uri, stable_branch, version_tag_build, version_tag,
                  tag_names, gitVars, bomStore, registry, latest, gistVars, runs, hist, tagPushes >>

\* publish_release_bom, line 105
publish_alias_bom ==
  /\ pc = "publish_alias"
  /\ \E fault \in FaultChoices(TRUE) :
       LET name == yml(options.bom_alias)
       IN  /\ bomStore' = IF fault THEN bomStore ELSE publish_bom(bomStore, bomFiles, name)
           /\ log' = Append(log, Entry("publish_bom", "", ~fault, name, FALSE))
           /\ pc' = after(~fault, "publish_version")
           /\ Count(fault, "publish_bom")
  /\ UNCHANGED << options, comp_idx, bom_dict, gist_uri, stable_branch, version_tag_build, version_tag,
                  tag_names, gitVars, bomFiles, registry, latest, gistVars, runs, hist, tagPushes >>

\* publish_release_bom, lines 107-110: hal admin publish version
publish_version ==
  /\ pc = "publish_version"
  /\ \E fault \in FaultChoices(TRUE) :
       /\ registry' = IF fault THEN registry
                      ELSE registry \cup {[version |-> options.release_version,
                                           alias |-> options.release_name,
                                           changelog |-> gist_uri]}
       /\ log' = Append(log, Entry("publish_version", "", ~fault, gist_uri, FALSE))
       /\ pc' = after(check_run_quick(~fault), "publish_latest")
       /\ Count(fault, "publish_version")
  /\ UNCHANGED << options, comp_idx, bom_dict, gist_uri, stable_branch, version_tag_build, version_tag,
                  tag_names, gitVars, bomFiles, bomStore, latest, gistVars, runs, hist, tagPushes >>

\* publish_release_bom, lines 111-112: hal admin publish latest
publish_latest ==
  /\ pc = "publish_latest"
  /\ \E fault \in FaultChoices(TRUE) :
       /\ latest' = IF fault THEN latest ELSE options.release_version
       /\ log' = Append(log, Entry("publish_latest", "", ~fault,
                                   options.release_version, FALSE))
       /\ pc' = after(check_run_quick(~fault), main_next("publish_release_bom"))
       /\ Count(fault, "publish_latest")
  /\ UNCHANGED << options, comp_idx, bom_dict, gist_uri, stable_branch, version_tag_build, version_tag,
                  tag_names, gitVars, bomFiles, bomStore, registry, gistVars, runs, hist, tagPushes >>

Next ==
  \/ start_run
  \/ unpack_bom
  \/ publish_changelog_gist
  \/ push_branch_and_tags
  \/ checkout
  \/ derive_tag
  \/ remote_add
  \/ push_branch
  \/ get_tags
  \/ push_tag
  \/ remote_remove
  \/ write_release_bom
  \/ publish_release_bom
  \/ write_alias_bom
  \/ publish_alias_bom
  \/ publish_version
  \/ publish_latest

Spec == Init /\ [][Next]_vars

\* ------------------------------------------------- the tag derivation alone
\* Lines 167-168 applied to the strings 'version-' + s, s of at most
\* MaxTagTokens tokens.
MaxTagTokens == 5
TagTokens == {"-", "1", "abc"}
TagBuilds ==
  {version_tag_build_of(s) :
     s \in UNION {[1..n -> TagTokens] : n \in 0..MaxTagTokens}}

TagInit == \E s \in TagBuilds : StartState(DefaultOptions, BomFull, "cut_tag", s)

\* lines 167-168
cut_tag ==
  /\ pc = "cut_tag"
  /\ version_tag' = version_tag_of(version_tag_build)
  /\ pc' = "tag_cut"
  /\ UNCHANGED << options, comp_idx, bom_dict, gist_uri, stable_branch,
                  version_tag_build, tag_names, gitVars, halVars, gistVars,
                  log, runs, faults, faulted, hist, tagPushes >>

TagNext == cut_tag

TagSpec == TagInit /\ [][TagNext]_vars

\* ------------------------------------------------------ reading the log
OrchestratorOps ==
  {"split", "checkout", "checkout_b", "derive_tag", "remote_add", "push_branch",
   "get_tags", "push_tag", "remote_remove"}
ManifestOps == {"write_bom_file", "publish_bom"}
RegistryOps == {"publish_version", "publish_latest"}

IndexOf(c) == CHOOSE k \in DOMAIN COMPONENTS : COMPONENTS[k] = c

\* The step of main a command belongs to, with the file it names.
MainStep(e) ==
  IF e.op \in OrchestratorOps THEN << "push_branch_and_tags", << >> >>
  ELSE IF e.op \in ManifestOps THEN << e.op, e.arg >>
  ELSE << e.op, << >> >>

\* The places of the log where a step of main begins.
StepStarts(l) == {j \in DOMAIN l : j = 1 \/ MainStep(l[j]) # MainStep(l[j - 1])}

\* The steps of main the log shows, each run of equal steps once.
MainSteps(l) ==
  LET starts == StepStarts(l)
  IN  [n \in 1..Cardinality(starts) |->
         MainStep(l[CHOOSE j \in starts : Cardinality({i \in starts : i <= j}) = n])]

ExpectedSteps ==
  << << "unpack_bom", << >> >>,
     << "publish_changelog_gist", << >> >>,
     << "push_branch_and_tags", << >> >>,
     << "write_bom_file", options.release_version \o << ".", "yml" >> >>,
     << "publish_bom", options.release_version \o << ".", "yml" >> >> >>
  \o (IF options.bom_alias = << >> THEN << >>
      ELSE << << "write_bom_file", options.bom_alias \o << ".", "yml" >> >>,
              << "publish_bom", options.bom_alias \o << ".", "yml" >> >> >>)
  \o << << "publish_version", << >> >>, << "publish_latest", << >> >> >>

IsPrefix(a, b) == Len(a) <= Len(b) /\ SubSeq(b, 1, Len(a)) = a

\* The run has removed the remote of the last component.
OrchestrationFinished(l) ==
  \E m \in DOMAIN l :
    /\ l[m].op = "remote_remove"
    /\ l[m].comp = COMPONENTS[Len(COMPONENTS)]
    /\ l[m].ok

\* C1: the steps of a run of main are a prefix of: load the manifest,
\* publish the changelog, orchestrate the branches and tags, write and
\* publish '<release_version>.yml', write and publish '<alias>.yml' if an
\* alias is set, register the release, register the latest pointer; a run
\* that is done has made all of them; and before any manifest write or
\* publish or registry call every component has had its remote removed.
C1_MainOrder ==
  /\ LET steps == MainSteps(log)
     IN  /\ IsPrefix(steps, ExpectedSteps)
         /\ (pc = "done" => steps = ExpectedSteps)
  /\ \A j \in DOMAIN log :
       log[j].op \in ManifestOps \cup RegistryOps =>
         /\ OrchestrationFinished(SubSeq(log, 1, j - 1))
         /\ \A k \in DOMAIN COMPONENTS :
              \E m \in 1..(j - 1) :
                log[m].op = "remote_remove" /\ log[m].comp = COMPONENTS[k] /\ log[m].ok

\* A run with an alias has registered the latest pointer.
C1_Witness ==
  /\ pc = "done"
  /\ options.bom_alias # << >>
  /\ log[Len(log)].op = "publish_latest"

\* C2: the tag push of a component is issued exactly when the derived tag
\* was not among the names the remote reported at the check, the cleanup
\* follows the check directly exactly when it was; no tag is pushed that
\* the remote lists, and no remote receives the same tag twice, in any
\* sequence of runs.
C2_TagPushedIffAbsent ==
  /\ \A j \in DOMAIN log :
       /\ log[j].op = "push_tag" =>
            /\ ~log[j].listed
            /\ j > 1
            /\ log[j - 1].op = "get_tags"
            /\ log[j - 1].comp = log[j].comp
            /\ log[j - 1].arg = log[j].arg
            /\ ~log[j - 1].listed
       /\ (log[j].op = "get_tags" /\ log[j].ok /\ j < Len(log)) =>
            /\ log[j + 1].comp = log[j].comp
            /\ log[j + 1].op = IF log[j].listed THEN "remote_remove" ELSE "push_tag"
  /\ (pc = "push_tag") = (/\ Len(log) > 0
                          /\ log[Len(log)].op = "get_tags"
                          /\ log[Len(log)].ok
                          /\ ~log[Len(log)].listed)
  /\ \A a, b \in DOMAIN tagPushes : tagPushes[a] = tagPushes[b] => a = b

\* A later run skips a tag that an earlier run pushed.
C2_Witness ==
  /\ runs > 1
  /\ Len(log) > 0
  /\ log[Len(log)].op = "remote_remove"
  /\ log[Len(log) - 1].op = "get_tags"
  /\ log[Len(log) - 1].listed
  /\ \E a \in DOMAIN tagPushes :
       tagPushes[a] = << log[Len(log)].comp, log[Len(log) - 1].arg >>

\* C3: whenever a run has stopped, normally or on a failure, no working
\* copy has the remote 'release' configured.
C3_ReleaseRemoteRemoved ==
  pc \in {"done", "failed"} => \A c \in ComponentSet : ~has_release(c)

\* C4: a patch-mode run that follows a run that completed, and that no
\* external fault has hit, does not fail, issues no tag push, leaves the
\* tags of every remote as the first run left them and, once it is through
\* the components, the remotes of every working copy as well.
C4_SecondPatchRunIsNoOp ==
  (runs > 1 /\ hist.ok /\ options.patch_release /\ faulted = "") =>
    /\ pc # "failed"
    /\ \A j \in DOMAIN log : log[j].op # "push_tag"
    /\ remoteTags = hist.tags
    /\ (OrchestrationFinished(log) => localRemotes = hist.remotes)

\* The second run is through the components, after a first run that pushed tags.
C4_Witness ==
  /\ runs > 1 /\ hist.ok /\ options.patch_release /\ faulted = ""
  /\ tagPushes # << >>
  /\ OrchestrationFinished(log)
  /\ pc = "done"

\* The steps at which a run can abort on a component.
ComponentSteps ==
  {"checkout", "remote_add", "push_branch", "get_tags", "push_tag", "remote_remove"}

\* The tag the run derives for a component, from the release candidate.
TagOf(c) ==
  LET full == << "version", "-" >>
              \o hal_version_bom(bomStore, options.rc_version)
                   .services[services_key(c)].version
  IN  SubSeq(full, 1, rindex(full, "-") - 1)

\* C5: a patch-mode run that follows a patch-mode run which an external
\* fault aborted at one of the steps of a component, and that no external
\* fault has hit, does not fail, and once it is through the components
\* every remote has the stable branch and the component's tag.
C5_RerunCompletes ==
  (/\ runs > 1
   /\ hist.patch /\ hist.aborted \in ComponentSteps /\ hist.faulted = hist.aborted
   /\ options.patch_release /\ faulted = "") =>
    /\ pc # "failed"
    /\ OrchestrationFinished(log) =>
         \A c \in ComponentSet :
           /\ stable_branch \in remoteBranches[c]
           /\ TagOf(c) \in remoteTags[c]

\* C6: a run with changelog_gist_only set issues no command but the load
\* of the manifest and the publication of the changelog.
C6_GistOnlyPublishesChangelogOnly ==
  options.changelog_gist_only =>
    \A j \in DOMAIN log : log[j].op \in {"unpack_bom", "publish_changelog_gist"}

\* C7: a run in new-release mode that reaches the branch creation after an
\* earlier run created the stable branch in the first component's working
\* copy has failed there: its last command is the failed 'checkout -b' of
\* the first component, it has added no remote and pushed nothing, and the
\* remotes and the working copies' remote configuration are as it found them.
C7_SecondBranchCreationFails ==
  (/\ runs > 1
   /\ hist.created
   /\ ~options.patch_release
   /\ pc \notin {"unpack_bom", "publish_changelog_gist", "push_branch_and_tags",
                 "checkout"}) =>
    /\ pc = "failed"
    /\ Len(log) > 0
    /\ LET e == log[Len(log)]
       IN  (e.op \in OrchestratorOps) =>
             /\ e.op = "checkout_b" /\ e.comp = COMPONENTS[1] /\ ~e.ok
             /\ \A j \in DOMAIN log :
                  log[j].op \notin {"remote_add", "push_branch", "push_tag"}
             /\ remoteBranches = hist.branches
             /\ remoteTags = hist.tags
             /\ localRemotes = hist.remotes

\* The second creation of the branch has failed.
C7_Witness ==
  /\ runs > 1 /\ hist.created /\ ~options.patch_release
  /\ pc = "failed"
  /\ log[Len(log)].op = "checkout_b"
  /\ log[Len(log)].comp = COMPONENTS[1]

\* C8: a failed command of a component is the last command of its run and
\* the run has failed; then every earlier component has had its branch
\* pushed, no later component has had a command, no command was issued
\* twice for a component, and no manifest was written, published or
\* registered.
C8_FailureAborts ==
  \A m \in DOMAIN log :
    (~log[m].ok /\ log[m].comp # "") =>
      /\ m = Len(log)
      /\ pc = "failed"
      /\ LET k == IndexOf(log[m].comp)
         IN  /\ \A j \in 1..(k - 1) :
                  /\ \E n \in DOMAIN log :
                       /\ log[n].op = "push_branch"
                       /\ log[n].comp = COMPONENTS[j]
                       /\ log[n].ok
                  /\ stable_branch \in remoteBranches[COMPONENTS[j]]
             /\ \A n \in DOMAIN log :
                  log[n].comp # "" => IndexOf(log[n].comp) <= k
      /\ \A a, b \in DOMAIN log :
           (log[a].comp # "" /\ log[a].comp = log[b].comp /\ log[a].op = log[b].op)
             => a = b
      /\ \A n \in DOMAIN log : log[n].op \notin ManifestOps \cup RegistryOps

\* A run failed on a component that is neither the first nor the last.
C8_Witness ==
  /\ pc = "failed"
  /\ Len(log) > 0
  /\ ~log[Len(log)].ok
  /\ log[Len(log)].comp = COMPONENTS[3]
  /\ log[Len(log)].op = "get_tags"

\* The release candidate as the store holds it, and what it records.
Candidate == (CHOOSE f \in bomStore : f.name = options.rc_version).bom
RecordedOf(c) ==
  Candidate.services[IF c = "spinnaker-monitoring" THEN "monitoring-daemon" ELSE c].version

\* C9: the manifest a completed run has published under
\* '<release_version>.yml' is the release candidate with its version field
\* set to the release version and nothing else changed; the manifest in
\* memory never differs from the candidate in its services; and every tag
\* pushed is a proper prefix of 'version-' followed by the version the
\* candidate records for the component.
C9_PublishedManifest ==
  /\ pc = "done" =>
       \E f \in bomStore :
         /\ f.name = options.release_version \o << ".", "yml" >>
         /\ f.bom.version = options.release_version
         /\ f.bom.services = Candidate.services
         /\ f.bom = [Candidate EXCEPT !.version = options.release_version]
  /\ bom_dict.loaded => bom_dict.services = Candidate.services
  /\ \A j \in DOMAIN log :
       log[j].op = "push_tag" =>
         LET full == << "version", "-" >> \o RecordedOf(log[j].comp)
         IN  /\ Len(log[j].arg) < Len(full)
             /\ IsPrefix(log[j].arg, full)

\* A run that pushed tags has completed and published its manifest.
C9_Witness ==
  /\ pc = "done"
  /\ \E j \in DOMAIN log : log[j].op = "push_tag" /\ log[j].ok
  /\ \E f \in bomStore : f.name = options.release_version \o << ".", "yml" >>
  /\ Candidate.version # options.release_version

HasHyphen(s) == \E k \in DOMAIN s : s[k] = "-"

\* 'version-<semver>-<build-suffix>'
HasVersionForm(s) ==
  /\ Len(s) > 4
  /\ s[1] = "version" /\ s[2] = "-"
  /\ \E k \in 4..(Len(s) - 1) : s[k] = "-"

\* A string without its last hyphen-delimited segment and the hyphen before it.
WithoutLastSegment(s) ==
  LET k == CHOOSE k \in DOMAIN s :
             s[k] = "-" /\ ~HasHyphen(SubSeq(s, k + 1, Len(s)))
  IN  SubSeq(s, 1, k - 1)

\* C10, as claimed: for a component whose recorded version has the form
\* 'version-<semver>-<build-suffix>', the tag pushed is the recorded string
\* without its last hyphen-delimited segment.
C10_TagIsRecordedWithoutSuffix ==
  \A j \in DOMAIN log :
    (log[j].op = "push_tag" /\ HasVersionForm(RecordedOf(log[j].comp))) =>
      log[j].arg = WithoutLastSegment(RecordedOf(log[j].comp))

\* C10, amended: for a component whose recorded version contains a hyphen,
\* the tag pushed is 'version-' followed by the recorded string without its
\* last hyphen-delimited segment.
C10_TagIsPrefixedRecordedWithoutSuffix ==
  \A j \in DOMAIN log :
    (log[j].op = "push_tag" /\ HasHyphen(RecordedOf(log[j].comp))) =>
      log[j].arg = << "version", "-" >> \o WithoutLastSegment(RecordedOf(log[j].comp))

\* The tag of a component whose recorded version is 'version-1.0.0-abc'
\* has reached the remote.
C10_Witness ==
  \E j \in DOMAIN log :
    /\ log[j].op = "push_tag"
    /\ log[j].ok
    /\ RecordedOf(log[j].comp) = << "version", "-", "1", ".", "0", ".", "0", "-", "abc" >>
    /\ log[j].arg \in remoteTags[log[j].comp]

Hyphens(s) == Cardinality({k \in DOMAIN s : s[k] = "-"})

\* C11: for every string 'version-<rest>' whose rest contains a hyphen, the
\* derived tag is the prefix of the string that ends just before its last
\* hyphen: what is cut off is one hyphen and a hyphen-free segment, and the
\* tag keeps every other hyphen.
C11_TagIsPrefixBeforeLastHyphen ==
  (pc = "tag_cut" /\ HasHyphen(SubSeq(version_tag_build, 3, Len(version_tag_build)))) =>
    /\ IsPrefix(version_tag, version_tag_build)
    /\ Len(version_tag) < Len(version_tag_build)
    /\ version_tag_build[Len(version_tag) + 1] = "-"
    /\ ~HasHyphen(SubSeq(version_tag_build, Len(version_tag) + 2, Len(version_tag_build)))
    /\ Hyphens(version_tag) = Hyphens(version_tag_build) - 1

\* 'version-1-abc-1' has been cut to 'version-1-abc'.
C11_Witness ==
  /\ pc = "tag_cut"
  /\ version_tag_build = << "version", "-", "1", "-", "abc", "-", "1" >>
  /\ version_tag = << "version", "-", "1", "-", "abc" >>

\* The services key the contract names for a component.
ContractKey(c) == IF c = "spinnaker-monitoring" THEN "monitoring-daemon" ELSE c

\* C12: with the manifest loaded, the tag derivation of a component succeeds
\* exactly when the candidate has the entry 'monitoring-daemon' for
\* 'spinnaker-monitoring' and the entry of its own name for every other
\* component, and the tag is cut from 'version-' followed by that entry's
\* version, never from an entry 'spinnaker-monitoring'; the remote 'release'
\* of a working copy names the repository of the component's own name.
C12_MonitoringKey ==
  /\ \A j \in DOMAIN log :
       (log[j].op = "derive_tag" /\ bom_dict.loaded) =>
         LET key == ContractKey(log[j].comp)
         IN  /\ log[j].ok = (key \in DOMAIN Candidate.services)
             /\ log[j].ok =>
                  LET full == << "version", "-" >> \o Candidate.services[key].version
                  IN  /\ log[j].arg = SubSeq(full, 1, rindex(full, "-") - 1)
                      /\ (j = Len(log) => version_tag_build = full)
             /\ (log[j].ok /\ log[j].comp \in DOMAIN Candidate.services
                   /\ key # log[j].comp) =>
                  LET own == << "version", "-" >>
                             \o Candidate.services[log[j].comp].version
                  IN  log[j].arg # SubSeq(own, 1, rindex(own, "-") - 1)
  /\ \A c \in ComponentSet :
       \A r \in localRemotes[c] : r.name = "release" => r.repo = c

\* The monitoring component has its remote, with a candidate that has an
\* entry 'spinnaker-monitoring' as well.
C12_Witness ==
  /\ pc = "push_branch"
  /\ comp = "spinnaker-monitoring"
  /\ "spinnaker-monitoring" \in DOMAIN Candidate.services
  /\ has_release(comp)
  /\ release_repo(comp) = "spinnaker-monitoring"

\* 'release-<major>.<minor>.x' for a version '<major>.<minor>.<patch>'.
StableBranchOf(v) == << "release", "-", v[1], ".", v[3], ".", "x" >>

\* The branch name computed for each release version of ReleaseVersions.
BranchNames ==
  [v \in ReleaseVersions |->
     LET parts == split(v, ".") IN format_stable_branch(parts[1], parts[2])]

\* C13: once computed, the stable branch of a run is 'release-<major>.<minor>.x'
\* for the major and minor parts of the release version; every branch
\* checkout, creation and push of the run names it, for every component; and
\* it is the name computed for every release version with the same major and
\* minor parts, whatever its patch number.
C13_StableBranch ==
  /\ stable_branch # << >> => stable_branch = StableBranchOf(options.release_version)
  /\ \A j \in DOMAIN log :
       log[j].op \in {"checkout", "checkout_b", "push_branch"} =>
         /\ log[j].arg = stable_branch
         /\ log[j].arg = StableBranchOf(options.release_version)
  /\ stable_branch # << >> =>
       \A v \in ReleaseVersions :
         (v[1] = options.release_version[1] /\ v[3] = options.release_version[3]) =>
           BranchNames[v] = stable_branch

\* A run for 1.0.2 has pushed 'release-1.0.x' for the last component.
C13_Witness ==
  /\ options.release_version = semver("1", "0", "2")
  /\ stable_branch = << "release", "-", "1", ".", "0", ".", "x" >>
  /\ \E j \in DOMAIN log :
       /\ log[j].op = "push_branch" /\ log[j].ok
       /\ log[j].comp = COMPONENTS[Len(COMPONENTS)]

\* The manifest commands publish_release_bom is to issue, in order.
ExpectedManifests ==
  << [op |-> "write_bom_file", name |-> options.release_version \o << ".", "yml" >>],
     [op |-> "publish_bom", name |-> options.release_version \o << ".", "yml" >>] >>
  \o (IF options.bom_alias = << >> THEN << >>
      ELSE << [op |-> "write_bom_file", name |-> options.bom_alias \o << ".", "yml" >>],
              [op |-> "publish_bom", name |-> options.bom_alias \o << ".", "yml" >>] >>)

\* C14: the manifest commands of a run are, in order, the write and the
\* publication of '<release_version>.yml' and then, if and only if an alias
\* is set, the write and the publication of '<alias>.yml'; a run that has
\* come to the registration has issued all of them; the store then holds
\* '<release_version>.yml' with the release version in its version field
\* and, with an alias, '<alias>.yml' with the same content; without an alias
\* no other manifest has been written or published.
C14_AliasManifest ==
  LET idx == {j \in DOMAIN log : log[j].op \in ManifestOps}
      rv == options.release_version \o << ".", "yml" >>
      al == options.bom_alias \o << ".", "yml" >>
  IN  /\ \A j \in idx :
           LET n == Cardinality({i \in idx : i <= j})
           IN  /\ n <= Len(ExpectedManifests)
               /\ log[j].op = ExpectedManifests[n].op
               /\ log[j].arg = ExpectedManifests[n].name
               /\ (n > 1 => log[j - 1].op \in ManifestOps /\ log[j - 1].ok)
      /\ pc \in {"publish_version", "publish_latest", "done"} =>
           /\ Cardinality(idx) = Len(ExpectedManifests)
           /\ \A j \in idx : log[j].ok
           /\ \E f \in bomStore :
                /\ f.name = rv
                /\ f.bom.version = options.release_version
                /\ f \in bomFiles
                /\ options.bom_alias # << >> =>
                     /\ [name |-> al, bom |-> f.bom] \in bomStore
                     /\ [name |-> al, bom |-> f.bom] \in bomFiles
      /\ options.bom_alias = << >> =>
           /\ \A f \in bomFiles : f.name = rv
           /\ \A f \in bomStore : f.name \in {rv, options.rc_version}

\* A run with the alias 'latest' is done: the store holds 'latest.yml'.
C14_Witness ==
  /\ pc = "done"
  /\ options.bom_alias = << "latest" >>
  /\ \E f \in bomStore :
       f.name = << "latest", ".", "yml" >> /\ f.bom.version = options.release_version

\* The places of the log where the changelog step completed.
ChangelogDone == {j \in DOMAIN log : log[j].op = "publish_changelog_gist" /\ log[j].ok}

\* C15: the changelog reference of a run is empty until the changelog step
\* of that run has completed and is then the URL that step produced, the one
\* exported to the environment; the step is made at most once in a run;
\* every registration of a release passes that URL, never the empty value,
\* and the registry holds it; the latest pointer is registered only after
\* the release was registered in the same run.
C15_ChangelogReference ==
  /\ (gist_uri = << >>) = (ChangelogDone = {})
  /\ Cardinality({j \in DOMAIN log : log[j].op = "publish_changelog_gist"}) <= 1
  /\ \A j \in ChangelogDone :
       /\ log[j].arg # << >>
       /\ gist_uri = log[j].arg
       /\ environ = log[j].arg
       /\ gists # << >>
       /\ log[j].arg[Len(log[j].arg)] = gists[Len(gists)].id
  /\ \A j \in DOMAIN log :
       /\ log[j].op = "publish_version" =>
            /\ log[j].arg # << >>
            /\ \E k \in ChangelogDone : k < j /\ log[k].arg = log[j].arg
            /\ log[j].ok =>
                 [version |-> options.release_version,
                  alias |-> options.release_name,
                  changelog |-> gist_uri] \in registry
       /\ log[j].op = "publish_latest" =>
            /\ j > 1
            /\ log[j - 1].op = "publish_version"
            /\ log[j - 1].ok
  /\ \A r \in registry : r.changelog # << >>
  /\ latest # << >> => \E r \in registry : r.version = latest

\* A second run is done: it has registered the release with its own
\* changelog, which is not the one of the first run.
C15_Witness ==
  /\ pc = "done"
  /\ runs > 1
  /\ Len(gists) > 1
  /\ latest = options.release_version
  /\ \E r \in registry : r.changelog = gist_uri /\ gist_uri # << >>

\* The commands of a component come in the order of the loop body, the
\* components in the order of COMPONENTS, each after the removal of the
\* remote of the one before.
ComponentOrder ==
  \A j \in DOMAIN log :
    log[j].comp # "" =>
      /\ j > 1
      /\ LET e == log[j]
             p == log[j - 1]
         IN  CASE e.op \in {"checkout", "checkout_b"} ->
                    /\ (e.op = "checkout") = options.patch_release
                    /\ IF p.comp = ""
                         THEN e.comp = COMPONENTS[1]
                         ELSE /\ p.op = "remote_remove" /\ p.ok
                              /\ IndexOf(e.comp) = IndexOf(p.comp) + 1
                [] e.op = "derive_tag" ->
                    p.comp = e.comp /\ p.op \in {"checkout", "checkout_b"} /\ p.ok
                [] e.op = "remote_add" ->
                    p.comp = e.comp /\ p.op = "derive_tag" /\ p.ok
                [] e.op = "push_branch" ->
                    p.comp = e.comp /\ p.op = "remote_add" /\ p.ok
                [] e.op = "get_tags" ->
                    p.comp = e.comp /\ p.op = "push_branch" /\ p.ok
                [] e.op = "push_tag" ->
                    p.comp = e.comp /\ p.op = "get_tags" /\ p.ok
                [] e.op = "remote_remove" ->
                    p.comp = e.comp /\ p.op \in {"get_tags", "push_tag"} /\ p.ok

\* Every component a run is through has had its branch pushed, and no
\* component has had it pushed twice.
BranchPushedOnce ==
  /\ \A a, b \in DOMAIN log :
       (log[a].op = "push_branch" /\ log[b].op = "push_branch"
          /\ log[a].comp = log[b].comp) => a = b
  /\ \A j \in DOMAIN log :
       log[j].op = "remote_remove" =>
         \E n \in 1..(j - 1) :
           log[n].op = "push_branch" /\ log[n].comp = log[j].comp /\ log[n].ok

\* C16: the commands of each component come in the order checkout or
\* creation of the stable branch, addition of the remote 'release', push of
\* the branch, query of the tags, push of the tag if absent, removal of the
\* remote, the components in the order of COMPONENTS; the branch of a
\* component is pushed exactly once in a run, before the tags are queried;
\* and at no time do two working copies have the remote 'release'.
C16_ComponentCommandOrder ==
  /\ ComponentOrder
  /\ BranchPushedOnce
  /\ Cardinality({c \in ComponentSet : has_release(c)}) <= 1

\* The changelogs uploaded so far for the release version.
ChangelogUploads ==
  {k \in DOMAIN gists :
     gists[k].description = << "Changelog for Spinnaker " >> \o options.release_version}

\* C17: in a run that follows a run which aborted during the orchestration
\* of the branches and tags, the changelog of the release version has been
\* uploaded at most once.
C17_ChangelogUploadedOnce ==
  (runs > 1 /\ hist.aborted \in OrchestratorOps) => Cardinality(ChangelogUploads) <= 1

\* C18: with a manifest that has an entry for every component but the
\* aggregate 'spinnaker', the monitoring component under 'monitoring-daemon',
\* loaded, no tag derivation of the run fails on a lookup.
C18_ManifestWithoutAggregateSuffices ==
  (/\ bom_dict.loaded
   /\ \A c \in ComponentSet \ {"spinnaker"} : ContractKey(c) \in DOMAIN bom_dict.services) =>
    \A j \in DOMAIN log : log[j].op = "derive_tag" => log[j].ok

\* The URL of a gist of the given user.
UrlOf(user, id) == << "https://gist", ".", "github", ".", "com/" >> \o user \o << "/", id >>

\* The document of the claim, signed by the given identity.
DocumentSignedBy(who) ==
  << "# Spinnaker " >> \o options.release_version \o << "\n" >>
  \o << "Fixed bug X", "\n", "Added Y", "\n" >>
  \o << "\n", "\n", "Generated by " >> \o who \o << " at ", "utcnow" >>

\* What the claim says of every upload but the signature.
UploadsDescribed ==
  /\ \A k \in DOMAIN gists :
       /\ gists[k].description = << "Changelog for Spinnaker " >> \o options.release_version
       /\ gists[k].id = ToString(k)
  /\ gist_uri # << >> =>
       /\ gists # << >>
       /\ gist_uri = UrlOf(gists[Len(gists)].user, gists[Len(gists)].id)

\* C19, as claimed: every uploaded changelog is the title line, the lines of
\* the file and the attribution 'Generated by <identity> at <timestamp>' with
\* the identity the changelog is uploaded under; its description is
\* 'Changelog for Spinnaker <release_version>', and the URL of the run names
\* that identity and the id of the upload.
C19_SignedByUploader ==
  /\ UploadsDescribed
  /\ \A k \in DOMAIN gists : gists[k].content = DocumentSignedBy(gists[k].user)

\* C19, amended: as claimed, but the attribution names the publisher of the
\* release remotes (--github_publisher), while the upload and the URL are
\* under --gist_user.
C19_SignedByPublisher ==
  /\ UploadsDescribed
  /\ \A k \in DOMAIN gists :
       /\ gists[k].content = DocumentSignedBy(options.github_publisher)
       /\ gists[k].user = options.gist_user

\* A changelog has been uploaded under an identity that is not the publisher.
C19_Witness ==
  /\ gists # << >>
  /\ gist_uri = UrlOf(options.gist_user, gists[Len(gists)].id)
  /\ gists[Len(gists)].user # options.github_publisher

\* C20: with the manifest loaded, the tag derivation of a component that has
\* its entry never fails; for a component whose recorded version has no
\* hyphen the tag is 'version', the run goes on to add the remote, and
\* 'version' is the tag that is looked for among the remote's tags and
\* pushed if it is not there.
C20_NoHyphenYieldsVersion ==
  \A j \in DOMAIN log :
    (/\ log[j].op = "derive_tag"
     /\ bom_dict.loaded
     /\ ContractKey(log[j].comp) \in DOMAIN Candidate.services) =>
      /\ log[j].ok
      /\ ~HasHyphen(RecordedOf(log[j].comp)) =>
           /\ log[j].arg = << "version" >>
           /\ (j = Len(log) => pc = "remote_add" /\ version_tag = << "version" >>)
           /\ \A n \in (j + 1)..Len(log) :
                log[n].comp = log[j].comp =>
                  /\ log[n].op \in {"get_tags", "push_tag"} => log[n].arg = << "version" >>
                  /\ (log[n].op = "get_tags" /\ log[n].ok /\ n < Len(log)) =>
                       log[n + 1].op = IF log[n].listed THEN "remote_remove" ELSE "push_tag"
                  /\ (log[n].op = "push_tag" /\ log[n].ok) =>
                       << "version" >> \in remoteTags[log[j].comp]

\* The tag 'version' of a component whose recorded version is '1.1.0' has
\* reached the remote, and the run is done.
C20_Witness ==
  /\ pc = "done"
  /\ RecordedOf("clouddriver") = << "1", ".", "1", ".", "0" >>
  /\ \E j \in DOMAIN log :
       /\ log[j].op = "push_tag" /\ log[j].ok
       /\ log[j].comp = "clouddriver"
       /\ log[j].arg = << "version" >>
  /\ << "version" >> \in remoteTags["clouddriver"]
====
